---------------------------- MODULE Spec2Model ----------------------------
(* The XIM input-context handler of kime (xim/src/handler.rs) and the       *)
(* engine adapter it consults (engine-cffi/src/lib.rs), as a state machine. *)
(* One step is the handling of one inbound event by KimeHandler.            *)
EXTENDS Integers, Sequences, FiniteSets, TLC

(***************************************************************************)
(* Bounds of the model.                                                    *)
(***************************************************************************)
NumCtx == 2        \* input context slots of the protocol layer
MaxChar == 2       \* characters the engine can produce: 1..MaxChar
MaxWin == 2        \* window identifiers the windowing system hands out: 1..MaxWin
MaxState == 3      \* modifier states of a key event: 0..MaxState (bit 0 shift, bit 1 lock)

Ctx == 1..NumCtx
Chars == 1..MaxChar
WinIds == 1..MaxWin
KeyStates == 0..MaxState

\* Option<T>: None is the empty sequence, Some(x) the sequence of x alone.
None == << >>
Some(x) == << x >>

\* A string is the sequence of its characters.
EmptyString == << >>

(***************************************************************************)
(* Program constants.                                                      *)
(***************************************************************************)
KEY_PRESS_EVENT == 2
KEY_RELEASE_EVENT == 3
ResponseTypes == {KEY_PRESS_EVENT, KEY_RELEASE_EVENT}

\* InputStyle is a bit set; a style is modelled as the set of its flags.
PREEDIT_CALLBACKS == {"PREEDIT_CALLBACKS"}
PREEDIT_POSITION == {"PREEDIT_POSITION"}
PREEDIT_NOTHING == {"PREEDIT_NOTHING"}
STATUS_AREA == {"STATUS_AREA"}
STATUS_NOTHING == {"STATUS_NOTHING"}
STATUS_NONE == {"STATUS_NONE"}

contains(style, flags) == flags \subseteq style

input_styles ==
    << PREEDIT_NOTHING \cup STATUS_NOTHING,
       PREEDIT_POSITION \cup STATUS_AREA,
       PREEDIT_POSITION \cup STATUS_NOTHING,
       PREEDIT_POSITION \cup STATUS_NONE,
       PREEDIT_CALLBACKS \cup STATUS_AREA,
       PREEDIT_CALLBACKS \cup STATUS_NOTHING,
       PREEDIT_CALLBACKS \cup STATUS_NONE >>

\* The styles a client negotiates in the model: one of each preedit kind.
NegotiatedStyles == {input_styles[1], input_styles[3], input_styles[6]}

ResultTypes == {"Bypass", "Consume", "ClearPreedit", "CommitBypass", "Commit",
                "CommitCommit", "CommitPreedit", "Preedit"}

(***************************************************************************)
(* State.                                                                  *)
(***************************************************************************)
VARIABLES
    live,             \* live[c]: the protocol layer holds input context c
    input_style,      \* input_style[c]: the style negotiated at creation
    engine,           \* KimeData.engine: the composition buffer (None: empty)
    pe,               \* KimeData.pe: Option<NonZeroU32>
    preedit_windows,  \* KimeHandler.preedit_windows: window id -> PeWindow
    flushed,          \* history: the last engine call on c was reset()
    drawn,            \* history: the character the client of c draws inline (0: none)
    ev                \* history: the event handled last, what it called and returned

vars == <<live, input_style, engine, pe, preedit_windows, flushed, drawn, ev>>

(***************************************************************************)
(* The composition engine behind the FFI. Its buffer is 0 when empty, else *)
(* the character being composed.                                           *)
(***************************************************************************)
kime_engine_new == 0

\* The results one key can produce, each with the buffer it leaves.
kime_engine_press_key(buf) ==
       {[ty |-> t, char1 |-> 0, char2 |-> 0, buf |-> buf] : t \in {"Bypass", "Consume"}}
  \cup {[ty |-> "ClearPreedit", char1 |-> 0, char2 |-> 0, buf |-> 0]}
  \cup {[ty |-> t, char1 |-> c, char2 |-> 0, buf |-> 0] :
            t \in {"CommitBypass", "Commit"}, c \in Chars}
  \cup {[ty |-> "CommitCommit", char1 |-> c, char2 |-> d, buf |-> 0] :
            c \in Chars, d \in Chars}
  \cup {[ty |-> "CommitPreedit", char1 |-> c, char2 |-> d, buf |-> d] :
            c \in Chars, d \in Chars}
  \cup {[ty |-> "Preedit", char1 |-> c, char2 |-> 0, buf |-> c] : c \in Chars}

\* Returns the buffered character (0 when empty) and clears the buffer.
kime_engine_reset(buf) == [n |-> buf, buf |-> 0]

(***************************************************************************)
(* engine-cffi: InputEngine.                                               *)
(***************************************************************************)
InputEngine_new == kime_engine_new

\* press_key: the FFI result with its characters converted (valid scalar
\* values convert to themselves).
InputEngine_press_key(buf) ==
    {[ty |-> r.ty, char1 |-> r.char1, char2 |-> r.char2, buf |-> r.buf] :
        r \in kime_engine_press_key(buf)}

\* Mutant: the 0 of an empty engine is not mapped to None.
InputEngine_reset_always_some(buf) ==
    LET r == kime_engine_reset(buf)
    IN  [val |-> Some(r.n), buf |-> r.buf]

\* reset: match kime_engine_reset { 0 => None, n => Some(n) }.
InputEngine_reset(buf) ==
    LET r == kime_engine_reset(buf)
    IN  [val |-> IF r.n = 0 THEN None ELSE Some(r.n), buf |-> r.buf]

(***************************************************************************)
(* Strings.                                                                *)
(***************************************************************************)
\* ch.encode_utf8(&mut buf): the string holding ch alone.
encode_utf8(ch) == << ch >>

\* Option<char>.map(Into::into).unwrap_or_default()
map_into_unwrap_or_default(opt) ==
    IF opt = None THEN EmptyString ELSE encode_utf8(opt[1])

(***************************************************************************)
(* The frame of one handler call: the context's data, the registry, the    *)
(* calls made so far (log) and how the call stands (st). fail is the index *)
(* of the fallible external call that returns an error (0: none does).     *)
(***************************************************************************)
Entry(op, w, s, ok) == [op |-> op, w |-> w, s |-> s, ok |-> ok]

Frame(c, fail) ==
    [ic |-> c, style |-> input_style[c], engine |-> engine[c], pe |-> pe[c],
     reg |-> preedit_windows, log |-> << >>, n |-> 0, fail |-> fail, st |-> "ok",
     consumed |-> FALSE, reply |-> EmptyString]

\* return Ok(b) of handle_forward_event
Return(h, b) == IF h.st = "ok" THEN [h EXCEPT !.consumed = b] ELSE h

\* An external call returning Result: Err makes the `?` return early.
Call(h, op, w, s) ==
    IF h.st # "ok" THEN h
    ELSE IF h.n + 1 = h.fail
         THEN [h EXCEPT !.n = @ + 1, !.st = "err",
                        !.log = Append(@, Entry(op, w, s, FALSE))]
         ELSE [h EXCEPT !.n = @ + 1, !.log = Append(@, Entry(op, w, s, TRUE))]

\* A call that cannot fail.
Do(h, op, w, s) ==
    IF h.st # "ok" THEN h ELSE [h EXCEPT !.log = Append(@, Entry(op, w, s, TRUE))]

\* AHashMap::remove and AHashMap::insert
map_remove(reg, w) == [x \in DOMAIN reg \ {w} |-> reg[x]]
map_insert(reg, w, v) == [x \in DOMAIN reg \cup {w} |-> IF x = w THEN v ELSE reg[x]]

(***************************************************************************)
(* The preedit window (pe_window.rs).                                      *)
(***************************************************************************)
PeWindow_new(app_win) == [app_win |-> app_win, preedit |-> 0]
PeWindow_set_preedit(win, ch) == [win EXCEPT !.preedit = ch]

(***************************************************************************)
(* KimeHandler's private methods.                                          *)
(***************************************************************************)
\* commit: server.commit(ic, ch.encode_utf8(..))?
commit(h, ch) == Call(h, "commit", 0, encode_utf8(ch))

\* Mutant: a window is created whether or not the context has one.
preedit_always_new(h, ch, w) ==
    IF h.st # "ok" THEN h
    ELSE IF contains(h.style, PREEDIT_CALLBACKS)
         THEN Call(h, "preedit_draw", 0, encode_utf8(ch))
    ELSE LET h1 == IF w = 0 THEN [h EXCEPT !.fail = h.n + 1] ELSE h
             h2 == Call(h1, "PeWindow_new", w, EmptyString)
         IN  IF h2.st # "ok" THEN h2
             ELSE Do([h2 EXCEPT
                        !.pe = Some(w),
                        !.reg = map_insert(@, w,
                                   PeWindow_set_preedit(PeWindow_new(h.ic), ch))],
                     "set_preedit", w, << ch >>)

\* Mutant: the new window's identifier is not stored in the context.
preedit_unrecorded(h, ch, w) ==
    IF h.st # "ok" THEN h
    ELSE IF contains(h.style, PREEDIT_CALLBACKS)
         THEN Call(h, "preedit_draw", 0, encode_utf8(ch))
    ELSE IF h.pe # None
         THEN IF h.pe[1] \in DOMAIN h.reg
              THEN Do([h EXCEPT !.reg[h.pe[1]] = PeWindow_set_preedit(@, ch)],
                      "set_preedit", h.pe[1], << ch >>)
              ELSE [h EXCEPT !.st = "panic"]
    ELSE LET h1 == IF w = 0 THEN [h EXCEPT !.fail = h.n + 1] ELSE h
             h2 == Call(h1, "PeWindow_new", w, EmptyString)
         IN  IF h2.st # "ok" THEN h2
             ELSE Do([h2 EXCEPT
                        !.reg = map_insert(@, w,
                                   PeWindow_set_preedit(PeWindow_new(h.ic), ch))],
                     "set_preedit", w, << ch >>)

\* Mutant: the style is not looked at; the preedit always goes to a window.
preedit_always_overlay(h, ch, w) ==
    IF h.st # "ok" THEN h
    ELSE IF h.pe # None
         THEN IF h.pe[1] \in DOMAIN h.reg
              THEN Do([h EXCEPT !.reg[h.pe[1]] = PeWindow_set_preedit(@, ch)],
                      "set_preedit", h.pe[1], << ch >>)
              ELSE [h EXCEPT !.st = "panic"]
    ELSE LET h1 == IF w = 0 THEN [h EXCEPT !.fail = h.n + 1] ELSE h
             h2 == Call(h1, "PeWindow_new", w, EmptyString)
         IN  IF h2.st # "ok" THEN h2
             ELSE Do([h2 EXCEPT
                        !.pe = Some(w),
                        !.reg = map_insert(@, w,
                                   PeWindow_set_preedit(PeWindow_new(h.ic), ch))],
                     "set_preedit", w, << ch >>)

\* preedit: w is the identifier the windowing system gives a new window
\* (0: it has none to give, and PeWindow::new fails).
preedit(h, ch, w) ==
    IF h.st # "ok" THEN h
    ELSE IF contains(h.style, PREEDIT_CALLBACKS)
         THEN Call(h, "preedit_draw", 0, encode_utf8(ch))
    ELSE IF h.pe # None
         THEN IF h.pe[1] \in DOMAIN h.reg
              THEN Do([h EXCEPT !.reg[h.pe[1]] = PeWindow_set_preedit(@, ch)],
                      "set_preedit", h.pe[1], << ch >>)
              ELSE [h EXCEPT !.st = "panic"]
    ELSE LET h1 == IF w = 0 THEN [h EXCEPT !.fail = h.n + 1] ELSE h
             h2 == Call(h1, "PeWindow_new", w, EmptyString)
         IN  IF h2.st # "ok" THEN h2
             ELSE Do([h2 EXCEPT
                        !.pe = Some(w),
                        !.reg = map_insert(@, w,
                                   PeWindow_set_preedit(PeWindow_new(h.ic), ch))],
                     "set_preedit", w, << ch >>)

\* Mutant: the reference read without take(), so the context keeps it.
clear_preedit_no_take(h) ==
    IF h.st # "ok" THEN h
    ELSE IF h.pe # None
         THEN LET w == h.pe[1]
              IN  IF w \in DOMAIN h.reg
                  THEN Call([h EXCEPT !.reg = map_remove(@, w)], "clean", w, EmptyString)
                  ELSE h
         ELSE h

\* clear_preedit: take() the reference, remove the window, clean it.
clear_preedit(h) ==
    IF h.st # "ok" THEN h
    ELSE IF h.pe # None
         THEN LET w == h.pe[1]
                  h1 == [h EXCEPT !.pe = None]
              IN  IF w \in DOMAIN h.reg
                  THEN Call([h1 EXCEPT !.reg = map_remove(@, w)], "clean", w, EmptyString)
                  ELSE h1
         ELSE h

\* Mutant: the flushed character committed before the preedit is cleared, as
\* the key results do.
reset_commit_first(h) ==
    IF h.st # "ok" THEN h
    ELSE LET r == InputEngine_reset(h.engine)
             h1 == Do([h EXCEPT !.engine = r.buf], "engine.reset", 0, r.val)
         IN  IF r.val # None
             THEN clear_preedit(commit(h1, r.val[1]))
             ELSE h1

\* reset: flush the engine; if it held a character, clear the preedit and commit it.
reset(h) ==
    IF h.st # "ok" THEN h
    ELSE LET r == InputEngine_reset(h.engine)
             h1 == Do([h EXCEPT !.engine = r.buf], "engine.reset", 0, r.val)
         IN  IF r.val # None
             THEN commit(clear_preedit(h1), r.val[1])
             ELSE h1

(***************************************************************************)
(* ServerHandler callbacks.                                                *)
(***************************************************************************)
\* u16 !0x1
NOT_0x1 == 65534

RECURSIVE BitAnd(_, _)
BitAnd(a, b) ==
    IF a = 0 \/ b = 0 THEN 0
    ELSE (a % 2) * (b % 2) + 2 * BitAnd(a \div 2, b \div 2)

\* Mutant: the release check left out.
is_release_never(xev) == FALSE

\* "skip release": xev.response_type != KEY_PRESS_EVENT
is_release(xev) == xev.response_type # KEY_PRESS_EVENT

\* Mutant: the shift bit not masked out.
other_modifiers_unmasked(xev) == xev.state # 0

\* "other modifiers then shift": xev.state & (!0x1) != 0
other_modifiers(xev) == BitAnd(xev.state, NOT_0x1) # 0

\* Whether handle_forward_event reaches engine.press_key for this event.
ConsultsEngine(xev) == ~is_release(xev) /\ ~other_modifiers(xev)

\* The placeholder for press_key's result in an event that does not call it.
NoResult == [ty |-> "-", char1 |-> 0, char2 |-> 0, buf |-> 0]

\* The arms of `match ret.ty`.
on_Bypass(h, ret) == Return(h, FALSE)

on_Consume(h, ret) == Return(h, TRUE)

on_ClearPreedit(h, ret) == Return(clear_preedit(h), TRUE)

on_CommitBypass(h, ret) == Return(clear_preedit(commit(h, ret.char1)), FALSE)

on_Commit(h, ret) == Return(clear_preedit(commit(h, ret.char1)), TRUE)

\* Mutant: the two characters committed in the wrong order.
on_CommitCommit_swapped(h, ret) ==
    Return(clear_preedit(commit(commit(h, ret.char2), ret.char1)), TRUE)

on_CommitCommit(h, ret) ==
    Return(clear_preedit(commit(commit(h, ret.char1), ret.char2)), TRUE)

on_CommitPreedit(h, ret, w) ==
    Return(preedit(commit(h, ret.char1), ret.char2, w), TRUE)

on_Preedit(h, ret, w) == Return(preedit(h, ret.char1, w), TRUE)

\* ret is what engine.press_key returns (with the buffer it leaves) when called.
handle_forward_event(h, xev, ret, w) ==
    IF is_release(xev) THEN Return(h, FALSE)
    ELSE IF other_modifiers(xev) THEN Return(reset(h), FALSE)
    ELSE LET h0 == Do([h EXCEPT !.engine = ret.buf], "engine.press_key", 0, EmptyString)
         IN  CASE ret.ty = "Bypass" -> on_Bypass(h0, ret)
               [] ret.ty = "Consume" -> on_Consume(h0, ret)
               [] ret.ty = "ClearPreedit" -> on_ClearPreedit(h0, ret)
               [] ret.ty = "CommitBypass" -> on_CommitBypass(h0, ret)
               [] ret.ty = "Commit" -> on_Commit(h0, ret)
               [] ret.ty = "CommitCommit" -> on_CommitCommit(h0, ret)
               [] ret.ty = "CommitPreedit" -> on_CommitPreedit(h0, ret, w)
               [] ret.ty = "Preedit" -> on_Preedit(h0, ret, w)

\* Mutant: the callback handled as the other reset triggers, replying nothing.
handle_reset_ic_commits(h) == reset(h)

\* handle_reset_ic: Ok(engine.reset().map(Into::into).unwrap_or_default())
handle_reset_ic(h) ==
    LET r == InputEngine_reset(h.engine)
        h1 == Do([h EXCEPT !.engine = r.buf], "engine.reset", 0, r.val)
    IN  [h1 EXCEPT !.reply = map_into_unwrap_or_default(r.val)]

\* Mutant: the window is cleaned in place and removed only when that succeeds.
handle_destory_ic_clean_first(h) ==
    IF h.pe # None
    THEN IF h.pe[1] \in DOMAIN h.reg
         THEN LET h1 == Call(h, "clean", h.pe[1], EmptyString)
              IN  IF h1.st = "ok" THEN [h1 EXCEPT !.reg = map_remove(@, h.pe[1])] ELSE h1
         ELSE [h EXCEPT !.st = "panic"]
    ELSE h

\* Mutant: the context is flushed as on a reset trigger before it goes.
handle_destory_ic_flushes(h) == reset(h)

\* handle_destory_ic: remove(&pe).unwrap().clean()?
handle_destory_ic(h) ==
    IF h.pe # None
    THEN IF h.pe[1] \in DOMAIN h.reg
         THEN Call([h EXCEPT !.reg = map_remove(@, h.pe[1])], "clean", h.pe[1], EmptyString)
         ELSE [h EXCEPT !.st = "panic"]
    ELSE h

\* Mutant: the loss of focus ignored, as the gain of focus is.
handle_unset_focus_ignored(h) == h

handle_unset_focus(h) == reset(h)

handle_set_focus(h) == h

handle_create_ic(h) == Call(h, "set_event_mask", 0, EmptyString)

\* NonZeroU32::new
NonZeroU32_new(n) == IF n = 0 THEN None ELSE Some(n)

\* Mutant: the lookup unwrapped, as it is in KimeHandler::preedit.
window_event_unwrap(h, window, op) ==
    LET win == NonZeroU32_new(window)
    IN  IF win # None
        THEN IF win[1] \in DOMAIN h.reg
             THEN Do(h, op, win[1], EmptyString)
             ELSE [h EXCEPT !.st = "panic"]
        ELSE h

\* expose / configure_notify: op names the method of PeWindow called on a hit.
window_event(h, window, op) ==
    LET win == NonZeroU32_new(window)
    IN  IF win # None /\ win[1] \in DOMAIN h.reg
        THEN Do(h, op, win[1], EmptyString)
        ELSE h

expose(h, window) == window_event(h, window, "expose")

configure_notify(h, window) == window_event(h, window, "configure_notify")

(***************************************************************************)
(* Events. Each action is the handling of one event from start to return.  *)
(* An action's first parameter d says how much of the event the history    *)
(* variables keep: everything (TRUE), or only its kind, context, result    *)
(* type, outcome and the context's window reference before it (FALSE).     *)
(* The program's state does not depend on it.                              *)
(***************************************************************************)
NoKey == [response_type |-> 0, state |-> 0]

NoEvent ==
    [kind |-> "init", ic |-> 0, window |-> 0, response_type |-> 0, state |-> 0,
     ty |-> "-", char1 |-> 0, char2 |-> 0, style |-> {},
     st |-> "ok", consumed |-> FALSE, reply |-> EmptyString, log |-> << >>,
     pre_engine |-> 0, pre_pe |-> None, pre_flushed |-> FALSE, pre_reg |-> << >>,
     pre_drawn |-> 0]

\* The record of the event just handled: its inputs, the context's data and
\* the registry before it, and the calls and the result of the handler.
Event(d, kind, c, window, xev, ret, h) ==
    IF d
    THEN [kind |-> kind, ic |-> c, window |-> window,
          response_type |-> xev.response_type, state |-> xev.state,
          ty |-> ret.ty, char1 |-> ret.char1, char2 |-> ret.char2,
          style |-> h.style,
          st |-> h.st, consumed |-> h.consumed, reply |-> h.reply, log |-> h.log,
          pre_engine |-> IF c \in Ctx THEN engine[c] ELSE 0,
          pre_pe |-> IF c \in Ctx THEN pe[c] ELSE None,
          pre_flushed |-> IF c \in Ctx THEN flushed[c] ELSE FALSE,
          pre_reg |-> preedit_windows,
          pre_drawn |-> IF c \in Ctx THEN drawn[c] ELSE 0]
    ELSE [NoEvent EXCEPT !.kind = kind, !.ic = c, !.ty = ret.ty, !.st = h.st,
                         !.pre_pe = IF c \in Ctx THEN pe[c] ELSE None]

\* The history of reset triggers of context c.
Flushed(d, c, v) == IF d THEN [flushed EXCEPT ![c] = v] ELSE flushed

\* What the client of c draws inline: the string of the last preedit_draw
\* that reached it (server.preedit_draw(ic, s) returning Ok).
Drawn(d, c, log) ==
    LET sent == {i \in 1..Len(log) : log[i].op = "preedit_draw" /\ log[i].ok}
    IN  IF ~d \/ sent = {} THEN drawn
        ELSE LET s == log[CHOOSE i \in sent : \A j \in sent : j <= i].s
             IN  [drawn EXCEPT ![c] = IF s = EmptyString THEN 0 ELSE s[1]]

\* The handler's writes to the context's data and to the registry.
Store(c, h) ==
    /\ engine' = [engine EXCEPT ![c] = h.engine]
    /\ pe' = [pe EXCEPT ![c] = h.pe]
    /\ preedit_windows' = h.reg

\* Identifiers the windowing system can give a new window.
NewIds ==
    LET free == WinIds \ DOMAIN preedit_windows
    IN  IF free = {} THEN {0} ELSE free

\* The fallible calls a handler makes when none fails, and whether it
\* asks the windowing system for a new window: what an event's faults and
\* the new window's identifier are drawn from.
Faults(probe) == 0..probe.n
WindowIds(probe) ==
    IF \E i \in 1..Len(probe.log) : probe.log[i].op = "PeWindow_new"
    THEN NewIds ELSE {0}

\* The state after construction: no context, an empty registry.
Init ==
    /\ live = [c \in Ctx |-> FALSE]
    /\ input_style = [c \in Ctx |-> {}]
    /\ engine = [c \in Ctx |-> 0]
    /\ pe = [c \in Ctx |-> None]
    /\ preedit_windows = << >>
    /\ flushed = [c \in Ctx |-> FALSE]
    /\ drawn = [c \in Ctx |-> 0]
    /\ ev = NoEvent

\* create-context: new_ic_data, then handle_create_ic; the protocol layer
\* keeps the context when the handler returns Ok.
CreateIC(d, c) ==
    /\ ~live[c]
    /\ \E style \in NegotiatedStyles, fail \in 0..1 :
         \E h \in {handle_create_ic([Frame(c, fail) EXCEPT
                      !.style = style, !.engine = InputEngine_new, !.pe = None])} :
             /\ live' = [live EXCEPT ![c] = (h.st = "ok")]
             /\ input_style' = [input_style EXCEPT ![c] = IF h.st = "ok" THEN style ELSE {}]
             /\ engine' = [engine EXCEPT ![c] = IF h.st = "ok" THEN h.engine ELSE 0]
             /\ pe' = [pe EXCEPT ![c] = None]
             /\ flushed' = Flushed(d, c, FALSE)
             /\ drawn' = [drawn EXCEPT ![c] = 0]
             /\ ev' = Event(d, "create_ic", c, 0, NoKey, NoResult, h)
             /\ UNCHANGED preedit_windows

\* destroy-context: the context is consumed by the handler whatever it returns.
DestroyIC(d, c) ==
    /\ live[c]
    /\ \E probe \in {handle_destory_ic(Frame(c, 0))} :
       \E fail \in Faults(probe) :
       \E h \in {handle_destory_ic(Frame(c, fail))} :
             /\ live' = [live EXCEPT ![c] = FALSE]
             /\ input_style' = [input_style EXCEPT ![c] = {}]
             /\ engine' = [engine EXCEPT ![c] = 0]
             /\ pe' = [pe EXCEPT ![c] = None]
             /\ preedit_windows' = h.reg
             /\ flushed' = Flushed(d, c, FALSE)
             /\ drawn' = [drawn EXCEPT ![c] = 0]
             /\ ev' = Event(d, "destroy_ic", c, 0, NoKey, NoResult, h)

ForwardEvent(d, c) ==
    /\ live[c]
    /\ \E rt \in ResponseTypes, s \in KeyStates :
         LET xev == [response_type |-> rt, state |-> s]
         IN  \E ret \in IF ConsultsEngine(xev)
                        THEN InputEngine_press_key(engine[c]) ELSE {NoResult} :
             \E probe \in {handle_forward_event(Frame(c, 0), xev, ret, 1)} :
             \E fail \in Faults(probe), w \in WindowIds(probe) :
             \E h \in {handle_forward_event(Frame(c, fail), xev, ret, w)} :
                /\ Store(c, h)
                /\ flushed' = Flushed(d, c, IF rt # KEY_PRESS_EVENT THEN flushed[c]
                                            ELSE ~ConsultsEngine(xev))
                /\ drawn' = Drawn(d, c, h.log)
                /\ ev' = Event(d, "forward_event", c, 0, xev, ret, h)
                /\ UNCHANGED <<live, input_style>>

ResetIC(d, c) ==
    /\ live[c]
    /\ \E h \in {handle_reset_ic(Frame(c, 0))} :
           /\ Store(c, h)
           /\ flushed' = Flushed(d, c, TRUE)
           /\ drawn' = Drawn(d, c, h.log)
           /\ ev' = Event(d, "reset_ic", c, 0, NoKey, NoResult, h)
           /\ UNCHANGED <<live, input_style>>

UnsetFocus(d, c) ==
    /\ live[c]
    /\ \E probe \in {handle_unset_focus(Frame(c, 0))} :
       \E fail \in Faults(probe) :
       \E h \in {handle_unset_focus(Frame(c, fail))} :
             /\ Store(c, h)
             /\ flushed' = Flushed(d, c, TRUE)
             /\ drawn' = Drawn(d, c, h.log)
             /\ ev' = Event(d, "unset_focus", c, 0, NoKey, NoResult, h)
             /\ UNCHANGED <<live, input_style>>

SetFocus(d, c) ==
    /\ live[c]
    /\ \E h \in {handle_set_focus(Frame(c, 0))} :
           /\ Store(c, h)
           /\ drawn' = Drawn(d, c, h.log)
           /\ ev' = Event(d, "set_focus", c, 0, NoKey, NoResult, h)
           /\ UNCHANGED <<live, input_style, flushed>>

\* Window events carry a raw u32 window identifier and belong to no context.
WindowFrame ==
    [ic |-> 0, style |-> {}, engine |-> 0, pe |-> None,
     reg |-> preedit_windows, log |-> << >>, n |-> 0, fail |-> 0, st |-> "ok",
     consumed |-> FALSE, reply |-> EmptyString]

Expose(d, window) ==
    \E h \in {expose(WindowFrame, window)} :
        /\ preedit_windows' = h.reg
        /\ ev' = Event(d, "expose", 0, window, NoKey, NoResult, h)
        /\ UNCHANGED <<live, input_style, engine, pe, flushed, drawn>>

ConfigureNotify(d, window) ==
    \E h \in {configure_notify(WindowFrame, window)} :
        /\ preedit_windows' = h.reg
        /\ ev' = Event(d, "configure_notify", 0, window, NoKey, NoResult, h)
        /\ UNCHANGED <<live, input_style, engine, pe, flushed, drawn>>

(***************************************************************************)
(* Spec: every context of the protocol layer receives every event, in any  *)
(* interleaving; the history keeps the outline of the last event.          *)
(* A panic (unwrap on None) ends the process.                              *)
(***************************************************************************)
Running == ev.st # "panic"

Next ==
    \/ \E c \in Ctx : Running /\ CreateIC(FALSE, c)
    \/ \E c \in Ctx : Running /\ DestroyIC(FALSE, c)
    \/ \E c \in Ctx : Running /\ ForwardEvent(FALSE, c)
    \/ \E c \in Ctx : Running /\ ResetIC(FALSE, c)
    \/ \E c \in Ctx : Running /\ UnsetFocus(FALSE, c)
    \/ \E c \in Ctx : Running /\ SetFocus(FALSE, c)
    \/ \E window \in 0..MaxWin : Running /\ Expose(FALSE, window)
    \/ \E window \in 0..MaxWin : Running /\ ConfigureNotify(FALSE, window)

Spec == Init /\ [][Next]_vars

(***************************************************************************)
(* SpecEvent: the events of one context, with the whole of the last event  *)
(* kept in the history. The other contexts receive no event; each is       *)
(* either not created or composing in overlay mode with a window of its    *)
(* own in the registry, as Spec can leave it.                              *)
(***************************************************************************)
Active == 1

\* A context left composing in overlay mode: buffer ch, window w showing ch.
Composing(c, w, ch) ==
    /\ live[c] /\ input_style[c] = input_styles[3]
    /\ engine[c] = ch /\ pe[c] = Some(w)
    /\ w \in DOMAIN preedit_windows
    /\ preedit_windows[w] = PeWindow_set_preedit(PeWindow_new(c), ch)

InitEvent ==
    /\ live \in [Ctx -> BOOLEAN]
    /\ ~live[Active]
    /\ \E owner \in [{c \in Ctx : live[c]} -> WinIds] :
         /\ \A c1, c2 \in DOMAIN owner : owner[c1] = owner[c2] => c1 = c2
         /\ input_style = [c \in Ctx |-> IF live[c] THEN input_styles[3] ELSE {}]
         /\ engine = [c \in Ctx |-> IF live[c] THEN MaxChar ELSE 0]
         /\ pe = [c \in Ctx |-> IF live[c] THEN Some(owner[c]) ELSE None]
         /\ preedit_windows =
               [w \in {owner[c] : c \in DOMAIN owner} |->
                  PeWindow_set_preedit(
                     PeWindow_new(CHOOSE c \in DOMAIN owner : owner[c] = w), MaxChar)]
    /\ flushed = [c \in Ctx |-> FALSE]
    /\ drawn = [c \in Ctx |-> 0]
    /\ ev = NoEvent

NextEvent ==
    \/ Running /\ CreateIC(TRUE, Active)
    \/ Running /\ DestroyIC(TRUE, Active)
    \/ Running /\ ForwardEvent(TRUE, Active)
    \/ Running /\ ResetIC(TRUE, Active)
    \/ Running /\ UnsetFocus(TRUE, Active)
    \/ Running /\ SetFocus(TRUE, Active)
    \/ \E window \in 0..MaxWin : Running /\ Expose(TRUE, window)
    \/ \E window \in 0..MaxWin : Running /\ ConfigureNotify(TRUE, window)

SpecEvent == InitEvent /\ [][NextEvent]_vars

(***************************************************************************)
(* Vocabulary of the properties: what the history says of the last event.  *)
(***************************************************************************)
KeyPress == ev.kind = "forward_event" /\ ev.response_type = KEY_PRESS_EVENT
KeyRelease == ev.kind = "forward_event" /\ ev.response_type # KEY_PRESS_EVENT

\* The modifier state has no bit other than shift (bit 0).
ShiftOnly(state) == state = 0 \/ state = 1

Overlay(style) == "PREEDIT_CALLBACKS" \notin style

\* The calls a reaction consists of, as the log records them.
PressKeyCall == Entry("engine.press_key", 0, EmptyString, TRUE)
ResetCall(opt) == Entry("engine.reset", 0, opt, TRUE)
CommitCall(ch) == Entry("commit", 0, << ch >>, TRUE)

\* "clear preedit": the window the context held before the event is cleaned.
ClearCalls ==
    IF ev.pre_pe # None
    THEN << Entry("clean", ev.pre_pe[1], EmptyString, TRUE) >>
    ELSE << >>

\* "show preedit ch": drawn by the client (inline), or set on the context's
\* window, which is created with identifier w when the context has none.
ShowCalls(ch, w) ==
    IF ~Overlay(ev.style)
    THEN << Entry("preedit_draw", 0, << ch >>, TRUE) >>
    ELSE IF ev.pre_pe # None
         THEN << Entry("set_preedit", ev.pre_pe[1], << ch >>, TRUE) >>
         ELSE << Entry("PeWindow_new", w, EmptyString, TRUE),
                 Entry("set_preedit", w, << ch >>, TRUE) >>

\* A log that is `calls` made in order, each once, up to a call that failed.
AbortedIn(log, calls) ==
    \E k \in 1..Len(calls) :
        log = SubSeq(calls, 1, k - 1) \o << [calls[k] EXCEPT !.ok = FALSE] >>

\* The context's window is gone from the context and from the registry, and
\* the rest of the registry is as before.
WindowCleared ==
    /\ pe[ev.ic] = None
    /\ DOMAIN preedit_windows = DOMAIN ev.pre_reg \ {ev.pre_pe[i] : i \in DOMAIN ev.pre_pe}
    /\ \A x \in DOMAIN preedit_windows : preedit_windows[x] = ev.pre_reg[x]

WindowKept == pe[ev.ic] = ev.pre_pe /\ preedit_windows = ev.pre_reg

(***************************************************************************)
(* C1. A key-press with no modifier other than shift: after press_key, the *)
(* handler makes exactly the calls of the result type's row, in order,     *)
(* each once, and reports the row's consumed flag; a call that fails ends  *)
(* the row there. Bypass and Consume leave the window reference and the    *)
(* registry unchanged.                                                     *)
(***************************************************************************)
RowCalls(w) ==
    CASE ev.ty = "Bypass" -> << >>
      [] ev.ty = "Consume" -> << >>
      [] ev.ty = "ClearPreedit" -> ClearCalls
      [] ev.ty = "CommitBypass" -> << CommitCall(ev.char1) >> \o ClearCalls
      [] ev.ty = "Commit" -> << CommitCall(ev.char1) >> \o ClearCalls
      [] ev.ty = "CommitCommit" ->
            << CommitCall(ev.char1), CommitCall(ev.char2) >> \o ClearCalls
      [] ev.ty = "CommitPreedit" ->
            << CommitCall(ev.char1) >> \o ShowCalls(ev.char2, w)
      [] ev.ty = "Preedit" -> ShowCalls(ev.char1, w)
      [] OTHER -> << >>

RowConsumed == ev.ty \notin {"Bypass", "CommitBypass"}

\* C1: the log of a shift-only key-press is press_key, then the row of its
\* result type, whole when the handler returns Ok and cut at the failed call
\* when it returns Err.
C1_ResultRows ==
    (KeyPress /\ ShiftOnly(ev.state)) =>
        /\ ev.ty \in ResultTypes
        /\ ev.st \in {"ok", "err"}
        /\ \E w \in (WinIds \ DOMAIN ev.pre_reg) \cup {0} :
             LET calls == << PressKeyCall >> \o RowCalls(w)
             IN  /\ ev.st = "ok" => ev.log = calls /\ ev.consumed = RowConsumed
                 /\ ev.st = "err" => AbortedIn(ev.log, calls)
        /\ ev.ty \in {"Bypass", "Consume"} => ev.st = "ok" /\ WindowKept
        /\ (ev.st = "ok" /\ ev.ty \in {"ClearPreedit", "CommitBypass", "Commit",
                                        "CommitCommit"}) => WindowCleared

\* A CommitCommit key on a context that holds a window, beside another
\* context's window: two different characters committed, then the clean.
C1_Witness ==
    /\ KeyPress /\ ShiftOnly(ev.state) /\ ev.st = "ok"
    /\ ev.ty = "CommitCommit" /\ ev.char1 # ev.char2
    /\ ev.pre_pe # None
    /\ DOMAIN preedit_windows # {}
    /\ Len(ev.log) = 4

(***************************************************************************)
(* C2. After the reset callback on an overlay context whose engine held a  *)
(* character and which owned a window, the context is Idle: its window     *)
(* reference is None and the registry no longer holds the window.          *)
(***************************************************************************)
C2_ResetCallbackClears ==
    (/\ ev.kind = "reset_ic"
     /\ Overlay(ev.style)
     /\ ev.pre_engine # 0
     /\ ev.pre_pe # None)
    => /\ pe[ev.ic] = None
       /\ ev.pre_pe[1] \notin DOMAIN preedit_windows

(***************************************************************************)
(* C3. Every context has at most one window in the registry, after every   *)
(* event of any context; a Preedit or CommitPreedit result on a context    *)
(* that already has a window leaves it with that window and no other.      *)
(***************************************************************************)
\* The windows of the registry created for context c.
WindowsOf(c) == {w \in DOMAIN preedit_windows : preedit_windows[w].app_win = c}

\* C3: at most one window per context; Preedit and CommitPreedit reuse the
\* window the context has.
C3_AtMostOneWindow ==
    /\ \A c \in Ctx : Cardinality(WindowsOf(c)) <= 1
    /\ (/\ ev.kind = "forward_event"
        /\ ev.ty \in {"Preedit", "CommitPreedit"}
        /\ ev.pre_pe # None)
       => /\ pe[ev.ic] = ev.pre_pe
          /\ WindowsOf(ev.ic) = {ev.pre_pe[1]}

\* Two contexts hold a window each, and the last key updated one of them.
C3_Witness ==
    /\ ev.kind = "forward_event" /\ ev.ty = "CommitPreedit" /\ ev.st = "ok"
    /\ ev.pre_pe # None
    /\ \A c \in 1..2 : live[c] /\ Cardinality(WindowsOf(c)) = 1

(***************************************************************************)
(* C4. A context owns a window only while its engine holds uncommitted     *)
(* state: in every state between events, a live context whose engine       *)
(* buffer is empty has no window reference and no window in the registry.  *)
(***************************************************************************)
C4_WindowOnlyWhileComposing ==
    \A c \in Ctx :
        (live[c] /\ engine[c] = 0) => pe[c] = None /\ WindowsOf(c) = {}

(***************************************************************************)
(* C5. A key-press with a modifier other than shift resets the engine,     *)
(* never calls press_key, cleans the window and commits the flushed        *)
(* character (if any), and reports the key as not consumed; a call that    *)
(* fails ends the handling there. A key-press with state 0 or shift alone  *)
(* calls press_key and never resets.                                       *)
(***************************************************************************)
OptionOf(buf) == IF buf = 0 THEN None ELSE Some(buf)

\* The calls of a reset trigger handled by KimeHandler::reset.
FlushCalls ==
    << ResetCall(OptionOf(ev.pre_engine)) >>
    \o (IF ev.pre_engine = 0 THEN << >>
        ELSE ClearCalls \o << CommitCall(ev.pre_engine) >>)

Calls(op) == {i \in 1..Len(ev.log) : ev.log[i].op = op}

\* C5: a modifier key-press is reset, clean, commit, Ok(false) and never
\* press_key; a shift-only key-press is press_key and never reset.
C5_ModifierFlushThenForward ==
    /\ (KeyPress /\ ~ShiftOnly(ev.state)) =>
          /\ Calls("engine.press_key") = {}
          /\ engine[ev.ic] = 0
          /\ ev.st \in {"ok", "err"}
          /\ ev.st = "ok" =>
                /\ ev.log = FlushCalls
                /\ ~ev.consumed
                /\ IF ev.pre_engine = 0 THEN WindowKept ELSE WindowCleared
          /\ ev.st = "err" => ev.pre_engine # 0 /\ AbortedIn(ev.log, FlushCalls)
    /\ (KeyPress /\ ShiftOnly(ev.state)) =>
          /\ Calls("engine.press_key") = {1}
          /\ Calls("engine.reset") = {}

\* Shift and another modifier while composing in a window: flushed, cleaned,
\* committed, not consumed.
C5_Witness ==
    /\ KeyPress /\ ev.state = 3 /\ ev.st = "ok"
    /\ ev.pre_engine # 0 /\ ev.pre_pe # None
    /\ Len(ev.log) = 3 /\ ~ev.consumed

(***************************************************************************)
(* C6. A key-release event, in any context state and with any modifier     *)
(* bits, consults the engine neither by press_key nor by reset, makes no   *)
(* call at all, leaves the engine, the window reference and the registry   *)
(* unchanged and is reported as not consumed.                              *)
(***************************************************************************)
C6_ReleaseBypassed ==
    KeyRelease =>
        /\ ev.log = << >>
        /\ ev.st = "ok" /\ ~ev.consumed
        /\ engine[ev.ic] = ev.pre_engine
        /\ WindowKept

\* A release with modifier bits on a context composing in a window.
C6_Witness ==
    /\ KeyRelease /\ ev.state >= 2
    /\ ev.pre_engine # 0 /\ ev.pre_pe # None
    /\ pe[ev.ic] # None

(***************************************************************************)
(* C7. After handle_destory_ic, with Ok or with the error of clean, the    *)
(* registry has no entry for the window the context held, and its other    *)
(* entries are as before; a context without a window leaves the registry   *)
(* unchanged.                                                              *)
(***************************************************************************)
C7_DestroyRemovesWindow ==
    ev.kind = "destroy_ic" =>
        /\ ev.st \in {"ok", "err"}
        /\ ev.pre_pe # None =>
              /\ ev.pre_pe[1] \in DOMAIN ev.pre_reg
              /\ DOMAIN preedit_windows = DOMAIN ev.pre_reg \ {ev.pre_pe[1]}
              /\ \A x \in DOMAIN preedit_windows : preedit_windows[x] = ev.pre_reg[x]
        /\ ev.pre_pe = None => preedit_windows = ev.pre_reg /\ ev.st = "ok"

\* A destruction whose clean failed, beside another context's window.
C7_Witness ==
    /\ ev.kind = "destroy_ic" /\ ev.st = "err"
    /\ ev.pre_pe # None
    /\ DOMAIN preedit_windows # {}

(***************************************************************************)
(* C8. clean is executed exactly once for every window on every path that  *)
(* ends composition: when the composition of an overlay context that owns  *)
(* a window ends (Commit, CommitBypass, CommitCommit or ClearPreedit, a     *)
(* reset trigger that flushes a character, destruction), the window is     *)
(* removed from the registry and cleaned in that event; no window is       *)
(* cleaned twice and none leaves the registry without being cleaned.       *)
(***************************************************************************)
ResetTrigger ==
    \/ ev.kind \in {"reset_ic", "unset_focus"}
    \/ KeyPress /\ ~ShiftOnly(ev.state)

EndsComposition ==
    \/ KeyPress /\ ShiftOnly(ev.state)
         /\ ev.ty \in {"Commit", "CommitBypass", "CommitCommit", "ClearPreedit"}
    \/ ResetTrigger /\ ev.pre_engine # 0
    \/ ev.kind = "destroy_ic"

CleansOf(w) == {i \in Calls("clean") : ev.log[i].w = w}

\* C8: a window is removed and cleaned once in the event that ends its
\* composition, never cleaned twice, never removed without a clean.
C8_CleanExactlyOnce ==
    /\ (EndsComposition /\ ev.pre_pe # None) =>
          /\ ev.pre_pe[1] \notin DOMAIN preedit_windows
          /\ Cardinality(CleansOf(ev.pre_pe[1])) = 1
    /\ \A w \in WinIds : Cardinality(CleansOf(w)) <= 1
    /\ \A w \in DOMAIN ev.pre_reg \ DOMAIN preedit_windows : CleansOf(w) # {}

(***************************************************************************)
(* C9. handle_reset_ic calls engine.reset() once and makes no other call   *)
(* (no commit); it replies the flushed character as a one-character        *)
(* string, or the empty string when the engine held nothing, and leaves    *)
(* the engine empty.                                                       *)
(***************************************************************************)
C9_ResetReply ==
    ev.kind = "reset_ic" =>
        /\ ev.st = "ok"
        /\ ev.log = << ResetCall(OptionOf(ev.pre_engine)) >>
        /\ ev.reply = (IF ev.pre_engine = 0 THEN << >> ELSE << ev.pre_engine >>)
        /\ engine[ev.ic] = 0

C9_Witness ==
    /\ ev.kind = "reset_ic" /\ ev.pre_engine # 0
    /\ Len(ev.reply) = 1 /\ engine[ev.ic] = 0

(***************************************************************************)
(* C10. Of two consecutive reset triggers on a context with no press_key   *)
(* between them, the second finds the engine empty: it commits and replies *)
(* nothing and changes neither the window reference nor the registry; and  *)
(* one trigger commits or replies at most one character.                   *)
(***************************************************************************)
Delivered == Cardinality(Calls("commit")) + Len(ev.reply)

\* C10: a reset trigger delivers at most one character, and none when the
\* context's last engine call was already a reset.
C10_ResetIdempotent ==
    ResetTrigger =>
        /\ Delivered <= 1
        /\ ev.pre_flushed =>
              /\ ev.pre_engine = 0
              /\ ev.st = "ok"
              /\ ev.log = << ResetCall(None) >>
              /\ Delivered = 0
              /\ WindowKept

\* A loss of focus right after a reset callback that flushed a character.
C10_Witness ==
    /\ ev.kind = "unset_focus" /\ ev.pre_flushed
    /\ ev.pre_pe # None
    /\ ev.log = << ResetCall(None) >>

(***************************************************************************)
(* C11. In overlay mode a Preedit or CommitPreedit result creates a window *)
(* if and only if the context has none. Without a window: one new window   *)
(* displaying the character, its identifier stored in the context, the     *)
(* registry larger by exactly that entry. With a window: that window now   *)
(* displays the new character (after the commit of char1 for               *)
(* CommitPreedit), the registry's keys and the context's reference are     *)
(* unchanged. A call that fails leaves the reference and the registry as   *)
(* they were.                                                              *)
(***************************************************************************)
ShowsPreedit ==
    /\ KeyPress /\ ShiftOnly(ev.state)
    /\ Overlay(ev.style)
    /\ ev.ty \in {"Preedit", "CommitPreedit"}

\* The character the result asks to show.
Shown == IF ev.ty = "Preedit" THEN ev.char1 ELSE ev.char2

RegistrySize(reg) == Cardinality(DOMAIN reg)

\* C11: a window is created exactly when the context has none; otherwise the
\* context's window is updated in place.
C11_WindowCreatedIffNone ==
    ShowsPreedit =>
        /\ ev.st \in {"ok", "err"}
        /\ ev.st = "ok" =>
              /\ (Calls("PeWindow_new") # {}) <=> (ev.pre_pe = None)
              /\ ev.pre_pe = None =>
                    \E w \in WinIds \ DOMAIN ev.pre_reg :
                        /\ pe[ev.ic] = Some(w)
                        /\ preedit_windows =
                              map_insert(ev.pre_reg, w,
                                         [app_win |-> ev.ic, preedit |-> Shown])
                        /\ RegistrySize(preedit_windows) = RegistrySize(ev.pre_reg) + 1
              /\ ev.pre_pe # None =>
                    /\ pe[ev.ic] = ev.pre_pe
                    /\ ev.pre_pe[1] \in DOMAIN ev.pre_reg
                    /\ preedit_windows =
                          [ev.pre_reg EXCEPT ![ev.pre_pe[1]].preedit = Shown]
                    /\ RegistrySize(preedit_windows) = RegistrySize(ev.pre_reg)
              /\ ev.ty = "CommitPreedit" =>
                    /\ ev.log[2] = CommitCall(ev.char1)
                    /\ \A i \in Calls("set_preedit") : i > 2
        /\ ev.st = "err" => WindowKept

\* A CommitPreedit key on a context whose window, created by an earlier key,
\* showed another character, beside another context's window.
C11_Witness ==
    /\ ShowsPreedit /\ ev.ty = "CommitPreedit" /\ ev.st = "ok"
    /\ ev.pre_pe # None
    /\ ev.pre_reg[ev.pre_pe[1]].preedit # ev.char2
    /\ preedit_windows[ev.pre_pe[1]].preedit = ev.char2
    /\ RegistrySize(preedit_windows) = 2

(***************************************************************************)
(* C12. Unset-focus on an overlay context composing character c in its     *)
(* window: engine.reset() returns c, the window is removed from the        *)
(* registry and cleaned, c is committed exactly once, the registry is      *)
(* smaller by exactly one and the context's window reference is None; a    *)
(* call that fails ends the handling there. Unset-focus on a context with  *)
(* an empty engine commits nothing and changes nothing.                    *)
(***************************************************************************)
ComposingOverlayBefore ==
    Overlay(ev.style) /\ ev.pre_engine # 0 /\ ev.pre_pe # None

\* C12: unset-focus while composing in a window is reset, clean, one commit
\* of the flushed character; with an empty engine it is reset alone.
C12_UnsetFocusFlushes ==
    ev.kind = "unset_focus" =>
        /\ ev.st \in {"ok", "err"}
        /\ engine[ev.ic] = 0
        /\ (ComposingOverlayBefore /\ ev.st = "ok") =>
              /\ ev.log = << ResetCall(Some(ev.pre_engine)),
                             Entry("clean", ev.pre_pe[1], EmptyString, TRUE),
                             CommitCall(ev.pre_engine) >>
              /\ Cardinality(Calls("commit")) = 1
              /\ WindowCleared
              /\ ev.pre_pe[1] \in DOMAIN ev.pre_reg
              /\ RegistrySize(preedit_windows) = RegistrySize(ev.pre_reg) - 1
        /\ (ComposingOverlayBefore /\ ev.st = "err") => AbortedIn(ev.log, FlushCalls)
        /\ ev.pre_engine = 0 =>
              /\ ev.st = "ok"
              /\ ev.log = << ResetCall(None) >>
              /\ Calls("commit") = {}
              /\ WindowKept

\* A loss of focus while composing in a window, beside another context's
\* window: flushed, cleaned, committed, one window left.
C12_Witness ==
    /\ ev.kind = "unset_focus" /\ ev.st = "ok"
    /\ ComposingOverlayBefore
    /\ Calls("commit") = {3}
    /\ pe[ev.ic] = None
    /\ RegistrySize(ev.pre_reg) = 2 /\ RegistrySize(preedit_windows) = 1

(***************************************************************************)
(* C13. A context whose style has PREEDIT_CALLBACKS never has a window:    *)
(* in every state its window reference is None and the registry holds no   *)
(* window of it; none of its events creates or updates a window or changes *)
(* the registry; and a Preedit or CommitPreedit result is delivered by     *)
(* exactly one preedit_draw call carrying the character, the last call of  *)
(* the event (none after a commit that failed).                            *)
(***************************************************************************)
Inline(style) == contains(style, PREEDIT_CALLBACKS)

InlineEvent == ev.ic \in Ctx /\ Inline(ev.style)

\* C13: no window for an inline context, ever; its preedit goes through one
\* preedit_draw call.
C13_InlineNeverWindow ==
    /\ \A c \in Ctx :
          (live[c] /\ Inline(input_style[c])) => pe[c] = None /\ WindowsOf(c) = {}
    /\ InlineEvent =>
          /\ ev.pre_pe = None
          /\ Calls("PeWindow_new") = {} /\ Calls("set_preedit") = {}
          /\ preedit_windows = ev.pre_reg
    /\ (InlineEvent /\ KeyPress /\ ShiftOnly(ev.state)
          /\ ev.ty \in {"Preedit", "CommitPreedit"}) =>
          /\ ev.st \in {"ok", "err"}
          /\ ev.st = "ok" =>
                /\ Calls("preedit_draw") = {Len(ev.log)}
                /\ ev.log[Len(ev.log)] = Entry("preedit_draw", 0, << Shown >>, TRUE)
          /\ ev.st = "err" =>
                /\ Calls("preedit_draw") \subseteq {Len(ev.log)}
                /\ \A i \in Calls("preedit_draw") :
                      ev.log[i] = Entry("preedit_draw", 0, << Shown >>, FALSE)
    /\ (~InlineEvent) => Calls("preedit_draw") = {}

\* A CommitPreedit key on an inline context already composing, while another
\* context has a window: one preedit_draw of char2, no window for the context.
C13_Witness ==
    /\ InlineEvent /\ KeyPress /\ ev.ty = "CommitPreedit" /\ ev.st = "ok"
    /\ ev.pre_engine # 0 /\ ev.char1 # ev.char2
    /\ ev.log[3] = Entry("preedit_draw", 0, << ev.char2 >>, TRUE)
    /\ pe[ev.ic] = None
    /\ RegistrySize(preedit_windows) = 1

(***************************************************************************)
(* C14. In inline mode, when the composition of a context whose client is  *)
(* drawing a preedit character ends (a ClearPreedit, Commit, CommitBypass  *)
(* or CommitCommit result, or a reset trigger that flushes a character),   *)
(* the handler's outputs of that event leave the client drawing no preedit *)
(* character.                                                              *)
(***************************************************************************)
EndsInlineComposition ==
    /\ InlineEvent
    /\ ev.pre_engine # 0 /\ ev.pre_drawn # 0
    /\ \/ KeyPress /\ ShiftOnly(ev.state)
            /\ ev.ty \in {"ClearPreedit", "Commit", "CommitBypass", "CommitCommit"}
       \/ ResetTrigger

\* C14: after an event that ends an inline composition and returns Ok, the
\* client's inline preedit is cleared.
C14_InlinePreeditCleared ==
    (EndsInlineComposition /\ ev.st = "ok") => drawn[ev.ic] = 0

(***************************************************************************)
(* C15. The feedback mode follows the negotiated style: a context has a    *)
(* window only if its style has PREEDIT_POSITION, a Preedit or             *)
(* CommitPreedit result is shown in a window exactly when the style has    *)
(* PREEDIT_POSITION and through preedit_draw exactly when it has           *)
(* PREEDIT_CALLBACKS, and a context with the style                         *)
(* PREEDIT_NOTHING | STATUS_NOTHING never has a window.                    *)
(***************************************************************************)
Positioned(style) == contains(style, PREEDIT_POSITION)

NoFeedback(style) == style = PREEDIT_NOTHING \cup STATUS_NOTHING

\* C15: windows for PREEDIT_POSITION only, preedit_draw for
\* PREEDIT_CALLBACKS only, neither for PREEDIT_NOTHING | STATUS_NOTHING.
C15_ModeFollowsStyle ==
    /\ \A c \in Ctx :
          live[c] =>
             /\ (pe[c] # None \/ WindowsOf(c) # {}) => Positioned(input_style[c])
             /\ NoFeedback(input_style[c]) => pe[c] = None /\ WindowsOf(c) = {}
             /\ drawn[c] # 0 => Inline(input_style[c])
    /\ (KeyPress /\ ShiftOnly(ev.state) /\ ev.st = "ok"
          /\ ev.ty \in {"Preedit", "CommitPreedit"}) =>
          /\ (Calls("set_preedit") # {}) <=> Positioned(ev.style)
          /\ (Calls("preedit_draw") # {}) <=> Inline(ev.style)

(***************************************************************************)
(* C16. handle_destory_ic makes no call but the clean of the context's     *)
(* window: no engine.reset(), no commit, no preedit_draw, no reply. The    *)
(* context's engine goes with it, whatever it had buffered, and a context  *)
(* created later starts with an empty engine, so the buffered character    *)
(* reaches the application in no event.                                    *)
(***************************************************************************)
\* C16: destruction flushes nothing, and nothing of the destroyed context's
\* engine is left for a later event to deliver.
C16_DestroyDoesNotFlush ==
    /\ ev.kind = "destroy_ic" =>
          /\ Calls("engine.reset") = {} /\ Calls("engine.press_key") = {}
          /\ Calls("commit") = {} /\ Calls("preedit_draw") = {}
          /\ ev.reply = EmptyString
          /\ \A i \in 1..Len(ev.log) : ev.log[i].op = "clean"
          /\ ~live[ev.ic] /\ engine[ev.ic] = 0
    /\ \A c \in Ctx : ~live[c] => engine[c] = 0
    /\ ev.kind = "create_ic" =>
          /\ engine[ev.ic] = InputEngine_new
          /\ Calls("commit") = {} /\ Calls("preedit_draw") = {}

\* The destruction of a context composing in a window: the window cleaned,
\* the buffered character gone without a commit.
C16_Witness ==
    /\ ev.kind = "destroy_ic" /\ ev.st = "ok"
    /\ ev.pre_engine # 0 /\ ev.pre_pe # None
    /\ ev.log = << Entry("clean", ev.pre_pe[1], EmptyString, TRUE) >>
    /\ engine[ev.ic] = 0

(***************************************************************************)
(* C17. An expose or configure-notify event whose window identifier is 0   *)
(* or no key of the registry raises no error, makes no call and changes    *)
(* nothing: the registry, every context's window reference, engine and     *)
(* style are as before. An event for a registered identifier calls the     *)
(* method on that window only, and leaves the contexts and the registry's  *)
(* keys and other windows as they were.                                    *)
(***************************************************************************)
WindowEventStep ==
    /\ ev'.kind \in {"expose", "configure_notify"}
    /\ ev'.st = "ok"
    /\ UNCHANGED <<live, input_style, engine, pe, flushed, drawn>>
    /\ DOMAIN preedit_windows' = DOMAIN preedit_windows
    /\ \A x \in DOMAIN preedit_windows \ {ev'.window} :
          preedit_windows'[x] = preedit_windows[x]
    /\ IF ev'.window \in DOMAIN preedit_windows
       THEN ev'.log = << Entry(ev'.kind, ev'.window, EmptyString, TRUE) >>
       ELSE ev'.log = << >> /\ preedit_windows' = preedit_windows

\* C17: every step that handles a window event is a no-op on a lookup miss
\* and touches only the window named on a hit.
C17_StrayWindowEventNoOp ==
    [][ev'.kind \in {"expose", "configure_notify"} => WindowEventStep]_vars

\* An expose for a nonzero identifier that is no key of the registry, while
\* another window is registered.
C17_Witness ==
    /\ ev.kind = "expose" /\ ev.st = "ok"
    /\ ev.window # 0 /\ ev.window \notin DOMAIN preedit_windows
    /\ preedit_windows # << >> /\ preedit_windows = ev.pre_reg
    /\ ev.log = << >>

(***************************************************************************)
(* C19. The registry and the contexts agree in every reachable state, also *)
(* after events that returned an error: a live context's window reference  *)
(* names a key of the registry, every key of the registry is the reference *)
(* of exactly one live context, a context that is gone has left no window  *)
(* behind, and no handler has panicked on an unwrap.                       *)
(***************************************************************************)
Holders(w) == {c \in Ctx : live[c] /\ pe[c] = Some(w)}

\* C19: references and registry keys correspond one to one; no panic.
C19_RegistrySynchronized ==
    /\ \A c \in Ctx :
          (live[c] /\ pe[c] # None) => pe[c][1] \in DOMAIN preedit_windows
    /\ \A w \in DOMAIN preedit_windows : Cardinality(Holders(w)) = 1
    /\ \A c \in Ctx : ~live[c] => pe[c] = None /\ WindowsOf(c) = {}
    /\ ev.st # "panic"

\* An unset-focus that returned an error after taking the context's window
\* out of the registry, while the other context still holds its window.
C19_Witness ==
    /\ ev.kind = "unset_focus" /\ ev.st = "err"
    /\ ev.pre_pe # None /\ pe[ev.ic] = None
    /\ RegistrySize(preedit_windows) = 1
    /\ \E c \in Ctx : live[c] /\ pe[c] # None /\ Holders(pe[c][1]) = {c}

(***************************************************************************)
(* SpecDesync: the events of context Active, as in SpecEvent, from a state *)
(* in which its window reference names no window of the registry. No       *)
(* event sequence of Spec reaches such a state (C19); this specification   *)
(* shows what each operation does when it finds one.                       *)
(***************************************************************************)
InitDesync ==
    /\ live \in [Ctx -> BOOLEAN]
    /\ live[Active]
    /\ \E owner \in [{c \in Ctx : live[c]} -> WinIds] :
         /\ \A c1, c2 \in DOMAIN owner : owner[c1] = owner[c2] => c1 = c2
         /\ input_style = [c \in Ctx |-> IF live[c] THEN input_styles[3] ELSE {}]
         /\ \E buf \in 0..MaxChar :
               engine = [c \in Ctx |-> IF c = Active THEN buf
                                       ELSE IF live[c] THEN MaxChar ELSE 0]
         /\ pe = [c \in Ctx |-> IF live[c] THEN Some(owner[c]) ELSE None]
         /\ preedit_windows =
               [w \in {owner[c] : c \in DOMAIN owner \ {Active}} |->
                  PeWindow_set_preedit(
                     PeWindow_new(CHOOSE c \in DOMAIN owner : owner[c] = w), MaxChar)]
    /\ flushed = [c \in Ctx |-> FALSE]
    /\ drawn = [c \in Ctx |-> 0]
    /\ ev = NoEvent

SpecDesync == InitDesync /\ [][NextEvent]_vars

(***************************************************************************)
(* C18. An operation that dereferences the window reference of a context   *)
(* (the preedit update of a Preedit or CommitPreedit result, clear_preedit *)
(* on a ClearPreedit, Commit, CommitBypass or CommitCommit result or on a  *)
(* reset trigger that flushes, and the destruction of the context) is      *)
(* fatal when the reference names an identifier absent from the registry.  *)
(***************************************************************************)
Desynchronized == ev.pre_pe # None /\ ev.pre_pe[1] \notin DOMAIN ev.pre_reg

\* The event reaches an operation that looks the reference up in the registry.
Dereferences ==
    /\ ev.st # "err"
    /\ \/ ShowsPreedit
       \/ KeyPress /\ ShiftOnly(ev.state)
            /\ ev.ty \in {"ClearPreedit", "Commit", "CommitBypass", "CommitCommit"}
       \/ ev.kind = "unset_focus" /\ ev.pre_engine # 0
       \/ KeyPress /\ ~ShiftOnly(ev.state) /\ ev.pre_engine # 0
       \/ ev.kind = "destroy_ic"

HandledByReset ==
    \/ ev.kind = "unset_focus"
    \/ KeyPress /\ ~ShiftOnly(ev.state)

CleanFailed == \E i \in Calls("clean") : ~ev.log[i].ok

\* C20: teardown before commit on a reset trigger; a failed clean loses the
\* flushed character.
C20_ResetTeardownFirst ==
    /\ HandledByReset =>
          /\ \A i \in Calls("clean"), j \in Calls("commit") : i < j
          /\ CleanFailed =>
                /\ ev.st = "err"
                /\ ev.pre_engine # 0 /\ ev.pre_pe # None
                /\ ev.log = << ResetCall(Some(ev.pre_engine)),
                               Entry("clean", ev.pre_pe[1], EmptyString, FALSE) >>
                /\ Calls("commit") = {}
                /\ WindowCleared
                /\ WindowsOf(ev.ic) = {}
                /\ engine[ev.ic] = 0
    /\ (KeyPress /\ ShiftOnly(ev.state)) =>
          \A i \in Calls("clean"), j \in Calls("commit") : j < i
    /\ (Calls("commit") # {} \/ ev.reply # EmptyString) =>
          \/ Calls("engine.press_key") # {}
          \/ ev.pre_engine # 0

\* A loss of focus while composing in a window whose clean fails: the
\* character flushed out of the engine, the window gone, nothing committed.
C20_Witness ==
    /\ ev.kind = "unset_focus" /\ ev.st = "err"
    /\ CleanFailed
    /\ ev.pre_engine # 0 /\ engine[ev.ic] = 0
    /\ pe[ev.ic] = None /\ ev.pre_pe[1] \notin DOMAIN preedit_windows
    /\ Calls("commit") = {}

====
